---- MODULE Spec2Model ----
(***************************************************************************)
(* A model of the TorchANI service's model cache                           *)
(* (src/app/core/model_manager.py, class ModelManager) and of the model    *)
(* selector it exposes.                                                     *)
(*                                                                         *)
(* The cache runs on one asyncio event loop: a coroutine runs without      *)
(* interruption until it really suspends.  The suspension points of the    *)
(* cache are the four Redis round trips (get, expire, setex, delete) and   *)
(* the acquisition of self.lock when it is held.  Each action below is the *)
(* code a coroutine runs between two suspension points.  The body of a     *)
(* with block of get_model_context belongs to the caller and may suspend.  *)
(***************************************************************************)
EXTENDS Integers, Sequences, FiniteSets, TLC

\* ---------------------------------------------------------------- bounds

\* Largest value of the clock read by time.time().
MaxTime == 1

\* ------------------------------------------------------------- constants

\* settings.gpu_memory_threshold, as a percentage.
gpu_memory_threshold == 70

\* The coroutines (request handlers) that use the cache concurrently.
Procs == {"t1", "t2"}

NoProc == "none"

\* The names _load_model knows how to build (lines 92-97).
Registry == {"ANI1ccx", "ANI2x", "ANI1x"}

\* The names a caller may pass: model_name is an arbitrary string.
Names == Registry \cup {"bogus"}

\* Readings of _get_gpu_memory_usage, as percentages: no accelerator (0),
\* exactly the threshold, above the threshold.
GaugeLevels == {0, 70, 90}

\* The values of settings.model_max_loaded explored.  The registry holds three
\* names, so a larger limit is never reached.
Capacities == {0, 1, 2}

\* Atomic numbers a request may hold: the seven that some model supports, and
\* boron, which none does.
Elements == {1, 5, 6, 7, 8, 9, 16, 17}

\* The operations a coroutine may run against the cache.
Ops == {"get_model", "get_model_context", "unload_model"}

\* available_models of list_models (line 171), in its order.
available_models == <<"ANI1ccx", "ANI2x", "ANI1x">>

\* What Redis holds under the key model:<name>:metadata: nothing, a record
\* whose time to live is settings.redis_model_ttl, or a record with less time
\* left.
RecordStates == {"absent", "fresh", "stale"}

\* Model objects.  Instance(i) is the i-th object the loader built for a name
\* since that name last left the cache; NoHandle is Python's None; an object
\* whose name has been unloaded since is EvictedInstance.
Instance(i) == <<i>>
NoHandle == <<>>
EvictedInstance == <<0>>

VARIABLES
    models_in_memory,   \* dict name -> model, as <<name, handle>> in insertion order
    model_last_used,    \* dict name -> time,  as <<name, time>> in insertion order
    lock,               \* the holder of self.lock, or NoProc
    model_max_loaded,   \* settings.model_max_loaded
    now,                \* the value time.time() returns
    gpu_usage,          \* the value _get_gpu_memory_usage() returns
    hung,               \* the event loop is stuck in a loop that never suspends
    pc,                 \* per coroutine: where it is suspended
    op,                 \* per coroutine: the operation it runs
    arg,                \* per coroutine: the model_name it passed
    result,             \* per coroutine: how its call ended
    handle,             \* per coroutine: the model object it holds
    evicted,            \* per coroutine: the names its current call unloaded, in order
    epoch_loads,        \* per name: objects built since the name last left the cache
    redis,              \* per name: the state of its metadata record in Redis
    listed,             \* per coroutine: the entries list_models has built so far
    elements,           \* the argument of a call of select_best_model
    selected,           \* what that call returned, "unset" before it
    request,            \* the request or job the application was sent
    response,           \* the HTTP response to it, status 0 before there is one
    job,                \* the state of the task of a job in the queue
    model_preload,      \* settings.model_preload
    preloaded,          \* the preloads initialize has made, with their outcomes
    init_state          \* where initialize is, "off" when it is not followed

cache_vars == <<models_in_memory, model_last_used, lock, model_max_loaded, now,
                gpu_usage, hung, pc, op, arg, result, handle, evicted,
                epoch_loads, redis, listed>>

select_vars == <<elements, selected>>

request_vars == <<request, response, job>>

startup_vars == <<model_preload, preloaded, init_state>>

vars == <<cache_vars, select_vars, request_vars, startup_vars>>

\* ------------------------------------------------- insertion-ordered dict

Keys(d) == {d[i][1] : i \in 1..Len(d)}

Has(d, k) == k \in Keys(d)

IndexOf(d, k) == CHOOSE i \in 1..Len(d) : d[i][1] = k

Get(d, k) == d[IndexOf(d, k)][2]

\* d[k] = v: a new key goes last, an existing key keeps its place.
Put(d, k, v) ==
    IF Has(d, k)
    THEN [i \in 1..Len(d) |-> IF d[i][1] = k THEN <<k, v>> ELSE d[i]]
    ELSE Append(d, <<k, v>>)

\* del d[k]
Del(d, k) == SelectSeq(d, LAMBDA e : e[1] # k)

\* --------------------------------------------------------- the selector

\* element_sets.get(model_name, set()) (lines 197-202)
get_supported_elements(model_name) ==
    CASE model_name = "ANI1ccx" -> {1, 6, 7, 8}
      [] model_name = "ANI1x" -> {1, 6, 7, 8}
      [] model_name = "ANI2x" -> {1, 6, 7, 8, 9, 16, 17}
      [] OTHER -> {}

\* A preference that tries the models the other way round.
PreferenceReversed == <<"ANI1x", "ANI1ccx", "ANI2x">>

\* line 207
model_preference == <<"ANI2x", "ANI1ccx", "ANI1x">>

\* The loop of lines 209-214 from position i on; "None" is Python's None.
RECURSIVE SelectFrom(_, _)
SelectFrom(i, required) ==
    IF i > Len(model_preference)
    THEN "None"
    ELSE IF required \subseteq get_supported_elements(model_preference[i])
    THEN model_preference[i]
    ELSE SelectFrom(i + 1, required)

\* A selector that prefers the qualifying model with the fewest elements.
SelectSmallest(required) ==
    LET Q == {i \in 1..Len(model_preference) :
                required \subseteq get_supported_elements(model_preference[i])}
        Size(i) == Cardinality(get_supported_elements(model_preference[i]))
    IN  IF Q = {} THEN "None"
        ELSE model_preference[CHOOSE i \in Q :
                 \A j \in Q : Size(i) < Size(j) \/ (Size(i) = Size(j) /\ i <= j)]

\* A selector that falls back to the last model of the preference order.
SelectOrLast(required) ==
    IF SelectFrom(1, required) = "None"
    THEN model_preference[Len(model_preference)]
    ELSE SelectFrom(1, required)

\* select_best_model (lines 204-214)
select_best_model(required) == SelectFrom(1, required)

\* ------------------------------------------------------------ the cache

Resident(n) == Has(models_in_memory, n)

\* A get_model that never looks into the cache.
CacheNeverHit(n) == FALSE

\* if model_name in self.models_in_memory (line 149)
CacheHit(n) == Resident(n)

\* A get_model without its lock.
LockAlwaysFree == TRUE

\* async with self.lock (line 147): the lock can be taken.
LockFree == lock = NoProc

\* A pressure check that always reports pressure.
PressureAlways == TRUE

\* A pressure check that never reports pressure.
PressureNever == FALSE

\* _check_memory_pressure (lines 64-67)
CheckMemoryPressure == gpu_usage > gpu_memory_threshold

\* A capacity loop that evicts only once the limit is exceeded.
AtCapacityAbove == Len(models_in_memory) > model_max_loaded

\* The condition of the capacity loop (line 87).
AtCapacity == Len(models_in_memory) >= model_max_loaded

\* A loader that builds a model for every name.
AnyModelKnown(n) == TRUE

\* The if/elif chain of lines 92-97 has a branch for the name.
KnownModel(n) == n \in Registry

\* An eviction that takes the model used last.
NewestModel ==
    LET d == model_last_used
        i == CHOOSE i \in 1..Len(d) : \A j \in 1..Len(d) : d[i][2] >= d[j][2]
    IN  d[i][1]

\* An eviction that takes, of the models used least recently, the one loaded
\* last.
LastOfOldest ==
    LET d == model_last_used
        i == CHOOSE i \in 1..Len(d) :
                /\ \A j \in 1..Len(d) : d[i][2] <= d[j][2]
                /\ \A j \in (i + 1)..Len(d) : d[j][2] > d[i][2]
    IN  d[i][1]

\* An eviction that takes the model loaded first, whatever its last use.
FirstInserted == model_last_used[1][1]

\* min(self.model_last_used, key=self.model_last_used.get) (line 74): the first
\* key, in insertion order, whose value is minimal.
OldestModel ==
    LET d == model_last_used
        i == CHOOSE i \in 1..Len(d) :
                /\ \A j \in 1..Len(d) : d[i][2] <= d[j][2]
                /\ \A j \in 1..(i - 1) : d[j][2] > d[i][2]
    IN  d[i][1]

\* An unload that forgets the model and keeps its last-use time.
UnloadEffectKeepsTime(p, n) ==
    /\ models_in_memory' = Del(models_in_memory, n)
    /\ UNCHANGED model_last_used
    /\ epoch_loads' = [epoch_loads EXCEPT ![n] = 0]
    /\ evicted' = [evicted EXCEPT ![p] = Append(@, n)]
    /\ handle' = [q \in Procs |->
                    IF arg[q] = n /\ handle[q] # NoHandle
                    THEN EvictedInstance ELSE handle[q]]

\* An unload that leaves the dict entries in place until the store has
\* deleted the record.
UnloadEffectDeferred(p, n) ==
    /\ evicted' = [evicted EXCEPT ![p] = Append(@, n)]
    /\ UNCHANGED <<models_in_memory, model_last_used, epoch_loads, handle>>

\* The bookkeeping of _unload_model (lines 128-135) for a resident name n, done
\* by coroutine p: both dict entries go.  Every object of n a coroutine holds
\* is from now on an evicted instance.
UnloadEffect(p, n) ==
    /\ models_in_memory' = Del(models_in_memory, n)
    /\ model_last_used' = Del(model_last_used, n)
    /\ epoch_loads' = [epoch_loads EXCEPT ![n] = 0]
    /\ evicted' = [evicted EXCEPT ![p] = Append(@, n)]
    /\ handle' = [q \in Procs |->
                    IF arg[q] = n /\ handle[q] # NoHandle
                    THEN EvictedInstance ELSE handle[q]]

\* A call of get_model ends by raising e: the lock is released on the way out.
Raise(p, e) ==
    /\ lock' = NoProc
    /\ pc' = [pc EXCEPT ![p] = "returned"]
    /\ result' = [result EXCEPT ![p] = e]

\* get_model returns normally, releasing the lock.
Return(p) ==
    /\ lock' = NoProc
    /\ pc' = [pc EXCEPT ![p] = "returned"]
    /\ result' = [result EXCEPT ![p] = "ok"]

\* A load that stores its entry before the step that raises.
LoaderRaisesAfterStore(p) ==
    /\ Raise(p, "LoadFailure")
    /\ models_in_memory' = Put(models_in_memory, arg[p], NoHandle)
    /\ model_last_used' = Put(model_last_used, arg[p], now)
    /\ UNCHANGED <<epoch_loads, evicted, handle>>

\* Lines 92-101 raise (the loader, or the placement on the device), and the
\* handler of lines 122-124 raises again: nothing has been stored yet.
LoaderRaises(p) ==
    /\ Raise(p, "LoadFailure")
    /\ UNCHANGED <<models_in_memory, model_last_used, epoch_loads, evicted,
                   handle>>

\* _load_model from its loops on (lines 83-117), up to the next suspension.
\* phase is "pressure" when the pressure loop has not been left yet.
LoadModel(p, phase) ==
    LET n == arg[p] IN
    IF phase = "pressure" /\ CheckMemoryPressure /\ models_in_memory # <<>>
    THEN \* lines 83-84, into _evict_oldest_model and _unload_model
         /\ UnloadEffect(p, OldestModel)
         /\ pc' = [pc EXCEPT ![p] = "del_p"]
         /\ UNCHANGED <<lock, result, hung>>
    ELSE IF AtCapacity
    THEN IF models_in_memory = <<>>
         THEN \* lines 87-88 with nothing to evict: _evict_oldest_model returns
              \* at once, without suspending, and the loop never ends
              /\ hung' = TRUE
              /\ pc' = [pc EXCEPT ![p] = "spin"]
              /\ UNCHANGED <<models_in_memory, model_last_used, epoch_loads,
                             evicted, handle, lock, result>>
         ELSE /\ UnloadEffect(p, OldestModel)
              /\ pc' = [pc EXCEPT ![p] = "del_c"]
              /\ UNCHANGED <<lock, result, hung>>
    ELSE IF ~KnownModel(n)
    THEN \* line 99
         /\ Raise(p, "UnknownModel")
         /\ UNCHANGED <<models_in_memory, model_last_used, epoch_loads,
                        evicted, handle, hung>>
    ELSE \/ /\ LoaderRaises(p)
            /\ UNCHANGED hung
         \/ \* lines 92-105, then suspended in setex (line 113)
            /\ models_in_memory' =
                   Put(models_in_memory, n, Instance(epoch_loads[n] + 1))
            /\ model_last_used' = Put(model_last_used, n, now)
            /\ epoch_loads' = [epoch_loads EXCEPT ![n] = @ + 1]
            /\ handle' = [handle EXCEPT ![p] = Instance(epoch_loads[n] + 1)]
            /\ pc' = [pc EXCEPT ![p] = "setex"]
            /\ UNCHANGED <<lock, result, evicted, hung>>

\* ------------------------------------------------------------- actions

\* The event loop can run a coroutine: it is not stuck, and no call has just
\* returned.  pc = "returned" is the instant at which a call ends: its caller
\* sees the outcome in the state the call leaves behind, before anything else
\* runs.
Running == ~hung /\ \A q \in Procs : pc[q] # "returned"

\* A coroutine calls get_model (routes.load_model, initialize), enters
\* get_model_context (the optimizer) or calls _unload_model
\* (routes.unload_model, which takes no lock).
Start(p, o, n) ==
    /\ Running
    /\ pc[p] = "idle"
    /\ op' = [op EXCEPT ![p] = o]
    /\ arg' = [arg EXCEPT ![p] = n]
    /\ IF o # "unload_model"
       THEN /\ pc' = [pc EXCEPT ![p] = "lock"]
            /\ UNCHANGED <<models_in_memory, model_last_used, epoch_loads,
                           evicted, handle, result>>
       ELSE IF Resident(n)
       THEN /\ UnloadEffect(p, n)
            /\ pc' = [pc EXCEPT ![p] = "udel"]
            /\ UNCHANGED result
       ELSE /\ pc' = [pc EXCEPT ![p] = "returned"]
            /\ result' = [result EXCEPT ![p] = "ok"]
            /\ UNCHANGED <<models_in_memory, model_last_used, epoch_loads,
                           evicted, handle>>
    /\ UNCHANGED <<lock, model_max_loaded, now, gpu_usage, hung>>
    /\ UNCHANGED <<redis, listed, select_vars, request_vars, startup_vars>>

\* get_model, lines 147-161: the lock is taken; a resident model is touched and
\* the coroutine suspends in expire, otherwise it suspends in get.
AcquireLock(p) ==
    /\ Running
    /\ pc[p] = "lock"
    /\ LockFree
    /\ lock' = p
    /\ IF CacheHit(arg[p])
       THEN /\ model_last_used' = Put(model_last_used, arg[p], now)
            /\ pc' = [pc EXCEPT ![p] = "expire"]
       ELSE /\ pc' = [pc EXCEPT ![p] = "get"]
            /\ UNCHANGED model_last_used
    /\ UNCHANGED <<models_in_memory, model_max_loaded, now, gpu_usage, hung,
                   op, arg, result, handle, evicted, epoch_loads>>
    /\ UNCHANGED <<redis, listed, select_vars, request_vars, startup_vars>>

\* redis.expire is back (lines 153-158).  EXPIRE sets the time to live of an
\* existing key and does nothing for a missing one.
ExpireReturns(p, store_ok, redis_after) ==
    /\ Running
    /\ pc[p] = "expire"
    /\ IF ~store_ok
       THEN /\ Raise(p, "StoreError")
            /\ UNCHANGED handle
       ELSE IF Resident(arg[p])
       THEN /\ handle' = [handle EXCEPT ![p] = Get(models_in_memory, arg[p])]
            /\ Return(p)
       ELSE \* line 158: the key is gone
            /\ Raise(p, "KeyError")
            /\ UNCHANGED handle
    /\ UNCHANGED <<models_in_memory, model_last_used, model_max_loaded, now,
                   gpu_usage, hung, op, arg, evicted, epoch_loads>>
    /\ redis' = IF store_ok THEN redis_after ELSE redis
    /\ UNCHANGED <<listed, select_vars, request_vars, startup_vars>>

\* A get_model that takes a record in the store for proof that the model is
\* loaded, and returns without loading.
GetReturnsTrustingRecord(p, store_ok, metadata) ==
    /\ Running
    /\ pc[p] = "get"
    /\ IF ~store_ok
       THEN /\ Raise(p, "StoreError")
            /\ UNCHANGED <<models_in_memory, model_last_used, epoch_loads,
                           evicted, handle, hung>>
       ELSE IF metadata
       THEN /\ Return(p)
            /\ UNCHANGED <<models_in_memory, model_last_used, epoch_loads,
                           evicted, handle, hung>>
       ELSE LoadModel(p, "pressure")
    /\ UNCHANGED <<model_max_loaded, now, gpu_usage, op, arg>>
    /\ UNCHANGED <<redis, listed, select_vars, request_vars, startup_vars>>

\* redis.get is back (line 161) with the record (metadata) or with None.
GetReturns(p, store_ok, metadata) ==
    /\ Running
    /\ pc[p] = "get"
    /\ IF ~store_ok
       THEN /\ Raise(p, "StoreError")
            /\ UNCHANGED <<models_in_memory, model_last_used, epoch_loads,
                           evicted, handle, hung>>
       ELSE IF metadata
       THEN \* line 164
            LoadModel(p, "pressure")
       ELSE \* line 167
            LoadModel(p, "pressure")
    /\ UNCHANGED <<model_max_loaded, now, gpu_usage, op, arg>>
    /\ UNCHANGED <<redis, listed, select_vars, request_vars, startup_vars>>

\* redis.delete is back inside an eviction of _load_model (line 143), and the
\* loop that asked for the eviction goes on.
DeleteReturns(p, store_ok, redis_after) ==
    /\ Running
    /\ pc[p] \in {"del_p", "del_c"}
    /\ IF ~store_ok
       THEN /\ Raise(p, "StoreError")
            /\ UNCHANGED <<models_in_memory, model_last_used, epoch_loads,
                           evicted, handle, hung>>
       ELSE LoadModel(p, IF pc[p] = "del_p" THEN "pressure" ELSE "capacity")
    /\ UNCHANGED <<model_max_loaded, now, gpu_usage, op, arg>>
    /\ redis' = IF store_ok THEN redis_after ELSE redis
    /\ UNCHANGED <<listed, select_vars, request_vars, startup_vars>>

\* redis.setex is back (lines 113-120).
SetexReturns(p, store_ok, redis_after) ==
    /\ Running
    /\ pc[p] = "setex"
    /\ IF ~store_ok THEN Raise(p, "StoreError") ELSE Return(p)
    /\ UNCHANGED <<models_in_memory, model_last_used, model_max_loaded, now,
                   gpu_usage, hung, op, arg, handle, evicted, epoch_loads>>
    /\ redis' = IF store_ok THEN redis_after ELSE redis
    /\ UNCHANGED <<listed, select_vars, request_vars, startup_vars>>

\* redis.delete is back in routes.unload_model's call of _unload_model.
UnloadReturns(p, store_ok, redis_after) ==
    /\ Running
    /\ pc[p] = "udel"
    /\ result' = [result EXCEPT ![p] = IF store_ok THEN "ok" ELSE "StoreError"]
    /\ pc' = [pc EXCEPT ![p] = "returned"]
    /\ UNCHANGED <<models_in_memory, model_last_used, lock, model_max_loaded,
                   now, gpu_usage, hung, op, arg, handle, evicted, epoch_loads>>
    /\ redis' = IF store_ok THEN redis_after ELSE redis
    /\ UNCHANGED <<listed, select_vars, request_vars, startup_vars>>

\* The caller goes on with the outcome of its call: into the body of the with
\* block when get_model returned to get_model_context (lines 219-221), and back
\* to the event loop otherwise.
Resume(p) ==
    /\ pc[p] = "returned"
    /\ evicted' = [evicted EXCEPT ![p] = <<>>]
    /\ IF op[p] = "get_model_context" /\ result[p] = "ok"
       THEN /\ pc' = [pc EXCEPT ![p] = "body"]
            /\ UNCHANGED <<op, arg, result, handle>>
       ELSE /\ pc' = [pc EXCEPT ![p] = "idle"]
            /\ op' = [op EXCEPT ![p] = "none"]
            /\ arg' = [arg EXCEPT ![p] = "none"]
            /\ result' = [result EXCEPT ![p] = "none"]
            /\ handle' = [handle EXCEPT ![p] = NoHandle]
    /\ UNCHANGED <<models_in_memory, model_last_used, lock, model_max_loaded,
                   now, gpu_usage, hung, epoch_loads>>
    /\ listed' = [listed EXCEPT ![p] = <<>>]
    /\ UNCHANGED <<redis, select_vars, request_vars, startup_vars>>

\* A context manager whose exit drops the model it lent.
ExitContextUnloads(p, body_ok) ==
    /\ Running
    /\ pc[p] = "body"
    /\ models_in_memory' = Del(models_in_memory, arg[p])
    /\ model_last_used' = Del(model_last_used, arg[p])
    /\ pc' = [pc EXCEPT ![p] = "returned"]
    /\ result' = [result EXCEPT ![p] = IF body_ok THEN "released" ELSE "BodyError"]
    /\ UNCHANGED <<lock, model_max_loaded, now, gpu_usage, hung, op, arg,
                   handle, evicted, epoch_loads>>
    /\ UNCHANGED <<redis, listed, select_vars, request_vars, startup_vars>>

\* A context manager without try/finally: no bookkeeping when the body raises.
ExitContextNoFinally(p, body_ok) ==
    /\ Running
    /\ pc[p] = "body"
    /\ model_last_used' =
           IF body_ok /\ Resident(arg[p]) THEN Put(model_last_used, arg[p], now)
           ELSE model_last_used
    /\ pc' = [pc EXCEPT ![p] = "returned"]
    /\ result' = [result EXCEPT ![p] = IF body_ok THEN "released" ELSE "BodyError"]
    /\ UNCHANGED <<models_in_memory, lock, model_max_loaded, now, gpu_usage,
                   hung, op, arg, handle, evicted, epoch_loads>>
    /\ UNCHANGED <<redis, listed, select_vars, request_vars, startup_vars>>

\* The with block of get_model_context ends (lines 220-225): its body has
\* returned (body_ok) or raised.  Either way the finally clause runs, and then
\* the with statement is left, normally or with the body's exception.
ExitContext(p, body_ok) ==
    /\ Running
    /\ pc[p] = "body"
    /\ model_last_used' =
           IF Resident(arg[p]) THEN Put(model_last_used, arg[p], now)
           ELSE model_last_used
    /\ pc' = [pc EXCEPT ![p] = "returned"]
    /\ result' = [result EXCEPT ![p] = IF body_ok THEN "released" ELSE "BodyError"]
    /\ UNCHANGED <<models_in_memory, lock, model_max_loaded, now, gpu_usage,
                   hung, op, arg, handle, evicted, epoch_loads>>
    /\ UNCHANGED <<redis, listed, select_vars, request_vars, startup_vars>>

\* ------------------------------------------------------------ list_models

\* A coroutine calls list_models (routes.list_models) and suspends in the
\* redis.get of the first model (line 175).
StartList(p) ==
    /\ Running
    /\ pc[p] = "idle"
    /\ op' = [op EXCEPT ![p] = "list_models"]
    /\ pc' = [pc EXCEPT ![p] = "list"]
    /\ UNCHANGED <<models_in_memory, model_last_used, lock, model_max_loaded,
                   now, gpu_usage, hung, arg, result, handle, evicted,
                   epoch_loads>>
    /\ UNCHANGED <<redis, listed, select_vars, request_vars, startup_vars>>

\* The model whose entry list_models builds next.
ListedNext(p) == available_models[Len(listed[p]) + 1]

\* A listing that renews the record it reads.
ListGetReturnsRenewing(p, store_ok, metadata) ==
    LET name == ListedNext(p)
        entry == <<name, Resident(name), metadata>>
    IN  /\ Running
        /\ pc[p] = "list"
        /\ store_ok
        /\ listed' = [listed EXCEPT ![p] = Append(@, entry)]
        /\ redis' = IF metadata THEN [redis EXCEPT ![name] = "fresh"] ELSE redis
        /\ IF Len(listed[p]) + 1 = Len(available_models)
           THEN /\ pc' = [pc EXCEPT ![p] = "returned"]
                /\ result' = [result EXCEPT ![p] = "ok"]
           ELSE UNCHANGED <<pc, result>>
        /\ UNCHANGED <<models_in_memory, model_last_used, lock,
                       model_max_loaded, now, gpu_usage, hung, op, arg, handle,
                       evicted, epoch_loads, select_vars, request_vars, startup_vars>>

\* redis.get of list_models is back (line 175): the entry of the model is
\* built from the cache as it is now (lines 177-182), as <<name, "loaded",
\* "metadata" is not None>>, and the loop goes on to the next model or, after
\* the last one, to the return of line 193.
ListGetReturns(p, store_ok, metadata) ==
    LET name == ListedNext(p)
        entry == <<name, Resident(name), metadata>>
    IN  /\ Running
        /\ pc[p] = "list"
        /\ IF ~store_ok
           THEN /\ pc' = [pc EXCEPT ![p] = "returned"]
                /\ result' = [result EXCEPT ![p] = "StoreError"]
                /\ UNCHANGED listed
           ELSE /\ listed' = [listed EXCEPT ![p] = Append(@, entry)]
                /\ IF Len(listed[p]) + 1 = Len(available_models)
                   THEN /\ pc' = [pc EXCEPT ![p] = "returned"]
                        /\ result' = [result EXCEPT ![p] = "ok"]
                   ELSE UNCHANGED <<pc, result>>
        /\ UNCHANGED <<models_in_memory, model_last_used, lock,
                       model_max_loaded, now, gpu_usage, hung, op, arg, handle,
                       evicted, epoch_loads, redis, select_vars, request_vars, startup_vars>>

\* ------------------------------------------------------ the store's side

\* What the Redis server does with the cache's commands: the records after a
\* command that succeeded (the redis_after of the actions above).

\* EXPIRE key ttl: an existing key gets the full time to live, a missing key
\* stays missing.
RedisExpire(n) ==
    IF redis[n] # "absent" THEN [redis EXCEPT ![n] = "fresh"] ELSE redis

\* SETEX key ttl value
RedisSetex(n) == [redis EXCEPT ![n] = "fresh"]

\* DEL key
RedisDelete(n) == [redis EXCEPT ![n] = "absent"]

\* GET key is not None
RedisGet(n) == redis[n] # "absent"

\* The name whose record the eviction in progress deletes.
BeingDeleted(p) == evicted[p][Len(evicted[p])]

\* ---------------------------------------------------------- environment

\* The record of a model changes without this process: time passes and its
\* time to live shrinks or runs out, or a worker process that shares the
\* store (tasks.py) publishes or deletes it.
StoreChanges(n, v) ==
    /\ Running
    /\ redis[n] # v
    /\ redis' = [redis EXCEPT ![n] = v]
    /\ UNCHANGED <<models_in_memory, model_last_used, lock, model_max_loaded,
                   now, gpu_usage, hung, pc, op, arg, result, handle, evicted,
                   epoch_loads, listed, select_vars, request_vars, startup_vars>>


\* time.time() moves on.
Tick ==
    /\ Running
    /\ now < MaxTime
    /\ now' = now + 1
    /\ UNCHANGED <<models_in_memory, model_last_used, lock, model_max_loaded,
                   gpu_usage, hung, pc, op, arg, result, handle, evicted,
                   epoch_loads>>
    /\ UNCHANGED <<redis, listed, select_vars, request_vars, startup_vars>>

\* The accelerator's memory use changes (this process or a co-tenant).
GaugeChange(g) ==
    /\ Running
    /\ g # gpu_usage
    /\ gpu_usage' = g
    /\ UNCHANGED <<models_in_memory, model_last_used, lock, model_max_loaded,
                   now, hung, pc, op, arg, result, handle, evicted,
                   epoch_loads>>
    /\ UNCHANGED <<redis, listed, select_vars, request_vars, startup_vars>>

\* ------------------------------------------------------- specification

\* No request has been sent and no job submitted.
NoRequest == [kind |-> "none", model_name |-> "None", rows_match |-> TRUE]

NoResponse == [status |-> 0, detail |-> "none", acquired |-> FALSE]

NoJob == [state |-> "none", retries |-> 0, error |-> "none"]

\* initialize is not followed, and nothing is configured for preloading
\* (config.py, line 47).
StartupIdle ==
    /\ model_preload = <<>>
    /\ preloaded = <<>>
    /\ init_state = "off"

RequestIdle ==
    /\ request = NoRequest
    /\ response = NoResponse
    /\ job = NoJob

\* ModelManager.__init__ (lines 22-27), with the settings of the deployment.
CacheInit ==
    /\ models_in_memory = <<>>
    /\ model_last_used = <<>>
    /\ lock = NoProc
    /\ model_max_loaded \in Capacities
    /\ now = 0
    /\ gpu_usage \in GaugeLevels
    /\ hung = FALSE
    /\ pc = [p \in Procs |-> "idle"]
    /\ op = [p \in Procs |-> "none"]
    /\ arg = [p \in Procs |-> "none"]
    /\ result = [p \in Procs |-> "none"]
    /\ handle = [p \in Procs |-> NoHandle]
    /\ evicted = [p \in Procs |-> <<>>]
    /\ epoch_loads = [n \in Names |-> 0]
    /\ redis = [n \in Names |-> "absent"]
    /\ listed = [p \in Procs |-> <<>>]

Init ==
    /\ CacheInit
    /\ elements = {}
    /\ selected = "unset"
    /\ RequestIdle
    /\ StartupIdle

\* One step of the cache or of its environment, against a store of which only
\* the answers matter: StoreOutcomes says whether a store call may succeed
\* (TRUE) and whether it may raise (FALSE), a read may find a record or none,
\* and the records themselves are not followed (redis_after is redis).  No
\* decision of the cache depends on a record: both branches of line 162 are the
\* same call.
NextWith(StoreOutcomes) ==
    \/ \E p \in Procs, o \in Ops, n \in Names : Start(p, o, n)
    \/ \E p \in Procs : AcquireLock(p)
    \/ \E p \in Procs, store_ok \in StoreOutcomes :
          ExpireReturns(p, store_ok, redis)
    \/ \E p \in Procs, store_ok \in StoreOutcomes, metadata \in BOOLEAN :
          GetReturns(p, store_ok, metadata)
    \/ \E p \in Procs, store_ok \in StoreOutcomes :
          DeleteReturns(p, store_ok, redis)
    \/ \E p \in Procs, store_ok \in StoreOutcomes :
          SetexReturns(p, store_ok, redis)
    \/ \E p \in Procs, store_ok \in StoreOutcomes :
          UnloadReturns(p, store_ok, redis)
    \/ \E p \in Procs : Resume(p)
    \/ \E p \in Procs, body_ok \in BOOLEAN : ExitContext(p, body_ok)
    \/ Tick
    \/ \E g \in GaugeLevels : GaugeChange(g)

Next == NextWith(BOOLEAN)

\* The cache under every interleaving of its callers, with a store that may
\* fail at every call.
Spec == Init /\ [][Next]_vars

ReliableNext == NextWith({TRUE})

\* The same with a store that answers every call.
ReliableSpec == Init /\ [][ReliableNext]_vars

\* The cache together with its store: a capacity of one, no accelerator, and a
\* store that answers every call and whose records are followed.  They age,
\* expire and are written by other processes, and callers also list the
\* models.
StoreInit ==
    /\ Init
    /\ model_max_loaded = 1
    /\ gpu_usage = 0

StoreNext ==
    \/ \E p \in Procs, o \in Ops, n \in Names : Start(p, o, n)
    \/ \E p \in Procs : AcquireLock(p)
    \/ \E p \in Procs : ExpireReturns(p, TRUE, RedisExpire(arg[p]))
    \/ \E p \in Procs : GetReturns(p, TRUE, RedisGet(arg[p]))
    \/ \E p \in Procs : DeleteReturns(p, TRUE, RedisDelete(BeingDeleted(p)))
    \/ \E p \in Procs : SetexReturns(p, TRUE, RedisSetex(arg[p]))
    \/ \E p \in Procs : UnloadReturns(p, TRUE, RedisDelete(arg[p]))
    \/ \E p \in Procs : Resume(p)
    \/ \E p \in Procs, body_ok \in BOOLEAN : ExitContext(p, body_ok)
    \/ \E p \in Procs : StartList(p)
    \/ \E p \in Procs, store_ok \in BOOLEAN :
          ListGetReturns(p, store_ok, RedisGet(ListedNext(p)))
    \/ \E n \in Registry, v \in RecordStates : StoreChanges(n, v)

StoreSpec == StoreInit /\ [][StoreNext]_vars

\* ------------------------------------------------------- fair scheduling

\* The callers of the cache alone, with the clock and the gauge standing
\* still at their first values.
FairNext ==
    \/ \E p \in Procs, o \in Ops, n \in Names : Start(p, o, n)
    \/ \E p \in Procs : AcquireLock(p)
    \/ \E p \in Procs, store_ok \in BOOLEAN : ExpireReturns(p, store_ok, redis)
    \/ \E p \in Procs, store_ok \in BOOLEAN, metadata \in BOOLEAN :
          GetReturns(p, store_ok, metadata)
    \/ \E p \in Procs, store_ok \in BOOLEAN : DeleteReturns(p, store_ok, redis)
    \/ \E p \in Procs, store_ok \in BOOLEAN : SetexReturns(p, store_ok, redis)
    \/ \E p \in Procs, store_ok \in BOOLEAN : UnloadReturns(p, store_ok, redis)
    \/ \E p \in Procs : Resume(p)
    \/ \E p \in Procs, body_ok \in BOOLEAN : ExitContext(p, body_ok)

\* A step of get_model by p that the scheduler or the store owes it: the
\* lock when it is free, the answer of the store call p is suspended in, and
\* the return to its caller.
Progress(p) ==
    \/ AcquireLock(p)
    \/ \E store_ok \in BOOLEAN : ExpireReturns(p, store_ok, redis)
    \/ \E store_ok \in BOOLEAN, metadata \in BOOLEAN :
          GetReturns(p, store_ok, metadata)
    \/ \E store_ok \in BOOLEAN : DeleteReturns(p, store_ok, redis)
    \/ \E store_ok \in BOOLEAN : SetexReturns(p, store_ok, redis)
    \/ Resume(p)

\* The event loop runs every coroutine that is ready, in the order in which
\* they became ready; asyncio.Lock wakes its waiters in the order in which
\* they came; and every call of the store comes back, with an answer or with
\* an exception.
Fairness == \A p \in Procs : SF_vars(Progress(p))

FairSpec == Init /\ [][FairNext]_vars /\ Fairness

\* ------------------------------------------------------------- shutdown

\* The lifespan of main.py (line 44) calls close once the server has let its
\* requests finish: no other coroutine runs from then on.  close suspends in
\* redis_client.close() (lines 47-48).
StartClose(p) ==
    /\ Running
    /\ \A q \in Procs : pc[q] = "idle"
    /\ pc' = [q \in Procs |-> IF q = p THEN "rclose" ELSE "stopped"]
    /\ op' = [op EXCEPT ![p] = "close"]
    /\ UNCHANGED <<models_in_memory, model_last_used, lock, model_max_loaded,
                   now, gpu_usage, hung, arg, result, handle, evicted,
                   epoch_loads>>
    /\ UNCHANGED <<redis, listed, select_vars, request_vars, startup_vars>>

\* close ends, normally or with the exception e of a store call.
CloseEnds(p, e) ==
    /\ pc' = [pc EXCEPT ![p] = "closed"]
    /\ result' = [result EXCEPT ![p] = e]
    /\ UNCHANGED <<models_in_memory, model_last_used, epoch_loads, evicted,
                   handle>>

\* A loop that unloads the first model only.
CloseLoopOnce(p) ==
    IF models_in_memory = <<>> \/ evicted[p] # <<>>
    THEN CloseEnds(p, "ok")
    ELSE /\ UnloadEffect(p, models_in_memory[1][1])
         /\ pc' = [pc EXCEPT ![p] = "cdel"]
         /\ UNCHANGED result

\* The loop of close (lines 51-52) up to its next suspension: the next name of
\* list(self.models_in_memory.keys()) is unloaded by _unload_model, which
\* suspends in redis.delete.  Nothing else touches the dict during close, so
\* the rest of that list is the dict itself, in insertion order.
CloseLoop(p) ==
    IF models_in_memory = <<>>
    THEN CloseEnds(p, "ok")
    ELSE /\ UnloadEffect(p, models_in_memory[1][1])
         /\ pc' = [pc EXCEPT ![p] = "cdel"]
         /\ UNCHANGED result

\* redis_client.close() is back (line 48).
CloseClientReturns(p, store_ok) ==
    /\ Running
    /\ pc[p] = "rclose"
    /\ IF store_ok THEN CloseLoop(p) ELSE CloseEnds(p, "StoreError")
    /\ UNCHANGED <<lock, model_max_loaded, now, gpu_usage, hung, op, arg>>
    /\ UNCHANGED <<redis, listed, select_vars, request_vars, startup_vars>>

\* redis.delete is back in close's call of _unload_model (line 143); the
\* client it was sent through had been closed at line 48.
CloseDeleteReturns(p, store_ok, redis_after) ==
    /\ Running
    /\ pc[p] = "cdel"
    /\ IF store_ok THEN CloseLoop(p) ELSE CloseEnds(p, "StoreError")
    /\ UNCHANGED <<lock, model_max_loaded, now, gpu_usage, hung, op, arg>>
    /\ redis' = IF store_ok THEN redis_after ELSE redis
    /\ UNCHANGED <<listed, select_vars, request_vars, startup_vars>>

ShutdownNext ==
    \/ Next
    \/ \E p \in Procs : StartClose(p)
    \/ \E p \in Procs, store_ok \in BOOLEAN : CloseClientReturns(p, store_ok)
    \/ \E p \in Procs, store_ok \in BOOLEAN :
          CloseDeleteReturns(p, store_ok, redis)

\* The cache from its construction to the shutdown of the application.
ShutdownSpec == Init /\ [][ShutdownNext]_vars

\* -------------------------------------------------------------- startup

MaxPreload == 2

\* The coroutine that runs initialize: the lifespan of main.py (line 30),
\* before the application serves its first request.
Initializer == "t1"

\* The values settings.model_preload can have (config.py, line 47).
PreloadLists == UNION {[1..n -> Names] : n \in 0..MaxPreload}

\* The for loop of initialize (line 38) has a model left, or is over.
AfterPreloads(done) ==
    IF Len(done) = Len(model_preload) THEN "done" ELSE "preload"

\* aioredis.from_url is back (lines 31-35): with a client, or with an
\* exception that ends initialize.
ConnectReturns(store_ok) ==
    /\ init_state = "connect"
    /\ init_state' = IF store_ok THEN AfterPreloads(preloaded) ELSE "failed"
    /\ UNCHANGED <<model_preload, preloaded>>
    /\ UNCHANGED <<cache_vars, select_vars, request_vars>>

\* The next model of the list is asked of get_model (lines 38-40).
Preload ==
    /\ init_state = "preload"
    /\ Len(preloaded) < Len(model_preload)
    /\ Start(Initializer, "get_model", model_preload[Len(preloaded) + 1])

\* get_model is back in initialize (lines 39-43): its return and its
\* exception are both logged, and the loop goes on.
PreloadReturns ==
    /\ init_state = "preload"
    /\ pc[Initializer] = "returned"
    /\ preloaded' = Append(preloaded, <<arg[Initializer], result[Initializer]>>)
    /\ init_state' = AfterPreloads(preloaded')
    /\ pc' = [pc EXCEPT ![Initializer] = "idle"]
    /\ op' = [op EXCEPT ![Initializer] = "none"]
    /\ arg' = [arg EXCEPT ![Initializer] = "none"]
    /\ result' = [result EXCEPT ![Initializer] = "none"]
    /\ handle' = [handle EXCEPT ![Initializer] = NoHandle]
    /\ evicted' = [evicted EXCEPT ![Initializer] = <<>>]
    /\ UNCHANGED <<models_in_memory, model_last_used, lock, model_max_loaded,
                   now, gpu_usage, hung, epoch_loads, redis, listed>>
    /\ UNCHANGED <<model_preload, select_vars, request_vars>>

\* A step of initialize.
InitializeStep ==
    \/ \E store_ok \in BOOLEAN : ConnectReturns(store_ok)
    \/ Preload
    \/ AcquireLock(Initializer)
    \/ \E store_ok \in BOOLEAN : ExpireReturns(Initializer, store_ok, redis)
    \/ \E store_ok \in BOOLEAN, metadata \in BOOLEAN :
          GetReturns(Initializer, store_ok, metadata)
    \/ \E store_ok \in BOOLEAN : DeleteReturns(Initializer, store_ok, redis)
    \/ \E store_ok \in BOOLEAN : SetexReturns(Initializer, store_ok, redis)
    \/ PreloadReturns

StartupInit ==
    /\ CacheInit
    /\ elements = {}
    /\ selected = "unset"
    /\ RequestIdle
    /\ model_preload \in PreloadLists
    /\ preloaded = <<>>
    /\ init_state = "connect"

StartupNext ==
    \/ InitializeStep
    \/ Tick
    \/ \E g \in GaugeLevels : GaugeChange(g)

\* initialize alone, for every list of models to preload; the event loop
\* runs it whenever it is ready, and every call of the store comes back.
StartupSpec ==
    StartupInit /\ [][StartupNext]_vars /\ WF_vars(InitializeStep)

\* ----------------------------------------- the selector, on every argument

\* A caller (the optimizer, lines 48-52 of optimizer.py) asks for the best
\* model for the elements of its molecule.
Select ==
    /\ selected = "unset"
    /\ selected' = select_best_model(elements)
    /\ UNCHANGED <<elements, cache_vars, request_vars, startup_vars>>

SelectInit ==
    /\ CacheInit
    /\ elements \in SUBSET Elements
    /\ selected = "unset"
    /\ RequestIdle
    /\ StartupIdle

SelectNext == Select

SelectSpec == SelectInit /\ [][SelectNext]_vars

\* --------------------------------------------------- requests and jobs

max_retries == 3

Kinds == {"optimize", "energy", "job"}

ModelNames == Names \cup {"None"}

\* The messages of the ValueErrors of optimizer.py (lines 52, 70, 120) and of
\* _load_model (line 99).
ValueErrors ==
    {"No model supports elements", "Unknown model", "Unknown optimizer"}

\* What get_model can answer for a name.
GetModelResults(name) ==
    IF KnownModel(name)
    THEN {"ok", "LoadFailure", "StoreError", "KeyError"}
    ELSE {"UnknownModel", "StoreError"}

\* How the body of a with block can end: normally, with the ValueError of
\* line 70 of optimizer.py, or with another exception.
BodyOutcomes == {"none", "Unknown optimizer", "Exception"}

\* The model the optimizer asks the cache for (lines 48-50, 116-118).
ModelFor(req, elems) ==
    IF req.model_name = "None" THEN select_best_model(elems)
    ELSE req.model_name

\* optimizer.optimize_structure and optimizer.calculate_energy (lines 46-95,
\* 114-140): the exception they raise, "none" when they return.  The
\* exception of get_model_context or of the body is logged and raised again.
OptimizerRaises(req, elems, cache_result, body) ==
    IF ModelFor(req, elems) = "None" THEN "No model supports elements"
    ELSE IF cache_result = "UnknownModel" THEN "Unknown model"
    ELSE IF cache_result # "ok" THEN "Exception"
    ELSE body

\* The try block of a route (lines 42-65, 92-111): the length check raises an
\* HTTPException inside it, before the optimizer is called.
RouteRaises(req, elems, cache_result, body) ==
    IF ~req.rows_match THEN "HTTPException"
    ELSE OptimizerRaises(req, elems, cache_result, body)

\* The except clauses of a route (lines 67-77, 113-123).  An HTTPException is
\* not a ValueError, so the second clause takes it.
RouteResponse(exc, failed, entered) ==
    IF exc = "none"
    THEN [status |-> 200, detail |-> "none", acquired |-> entered]
    ELSE IF exc \in ValueErrors
    THEN [status |-> 400, detail |-> exc, acquired |-> entered]
    ELSE [status |-> 500, detail |-> failed, acquired |-> entered]

\* The request got as far as get_model_context.
EntersContext(req, elems) ==
    req.rows_match /\ ModelFor(req, elems) # "None"

\* POST /optimize (routes.py, lines 35-77).
OptimizeStructure(cache_result, body) ==
    /\ request.kind = "optimize"
    /\ response = NoResponse
    /\ cache_result \in GetModelResults(ModelFor(request, elements))
    /\ response' = RouteResponse(
                       RouteRaises(request, elements, cache_result, body),
                       "Optimization failed",
                       EntersContext(request, elements))
    /\ UNCHANGED <<request, job, select_vars, cache_vars, startup_vars>>

\* POST /energy (routes.py, lines 85-123).
CalculateEnergy(cache_result, body) ==
    /\ request.kind = "energy"
    /\ response = NoResponse
    /\ cache_result \in GetModelResults(ModelFor(request, elements))
    /\ body # "Unknown optimizer"
    /\ response' = RouteResponse(
                       RouteRaises(request, elements, cache_result, body),
                       "Energy calculation failed",
                       EntersContext(request, elements))
    /\ UNCHANGED <<request, job, select_vars, cache_vars, startup_vars>>

\* In optimize_structure_task the parameter optimizer of line 68, a str, hides
\* the optimizer object imported at line 13.
ParameterHidesOptimizer == TRUE

\* The try block of optimize_structure_task (lines 84-142): the exception it
\* raises, "none" when it returns.  Line 94 calls smiles_to_structure on the
\* name optimizer.
TaskRaises(req, elems, cache_result, body) ==
    IF ParameterHidesOptimizer THEN "AttributeError"
    ELSE OptimizerRaises(req, elems, cache_result, body)

\* self.retry(exc=e) (line 148): the task is sent again until it has been
\* retried max_retries times, and then fails with e.
Retry(exc) ==
    IF job.retries < max_retries
    THEN job' = [state |-> "RETRY", retries |-> job.retries + 1,
                 error |-> exc]
    ELSE job' = [state |-> "FAILURE", retries |-> job.retries, error |-> exc]

\* A worker runs optimize_structure_task once (tasks.py, lines 61-148): every
\* exception of the try block is answered with a retry.
TaskAttempt(cache_result, body) ==
    /\ request.kind = "job"
    /\ job.state \in {"PENDING", "RETRY"}
    /\ cache_result \in GetModelResults(ModelFor(request, elements))
    /\ LET exc == TaskRaises(request, elements, cache_result, body)
       IN  IF exc = "none"
           THEN job' = [state |-> "SUCCESS", retries |-> job.retries,
                        error |-> "none"]
           ELSE Retry(exc)
    /\ UNCHANGED <<request, response, select_vars, cache_vars, startup_vars>>

\* One request or one submitted job, for every model name, every set of
\* elements and both outcomes of the length check.
RequestInit ==
    /\ CacheInit
    /\ model_max_loaded = 2
    /\ gpu_usage = 0
    /\ elements \in SUBSET Elements
    /\ selected = "unset"
    /\ request \in [kind : Kinds, model_name : ModelNames, rows_match : BOOLEAN]
    /\ request.kind = "job" => request.rows_match
    /\ response = NoResponse
    /\ job = IF request.kind = "job"
             THEN [state |-> "PENDING", retries |-> 0, error |-> "none"]
             ELSE NoJob
    /\ StartupIdle

RequestNext ==
    \/ \E cache_result \in {"ok", "UnknownModel", "LoadFailure", "StoreError",
                             "KeyError"},
          body \in BodyOutcomes :
          \/ OptimizeStructure(cache_result, body)
          \/ CalculateEnergy(cache_result, body)
          \/ TaskAttempt(cache_result, body)

RequestSpec == RequestInit /\ [][RequestNext]_vars

\* ------------------------------------------------------------- properties

\* A call of get_model (directly or from get_model_context) has just ended.
Acquired(p) ==
    /\ pc[p] = "returned"
    /\ op[p] \in {"get_model", "get_model_context"}
    /\ result[p] \notin {"released", "BodyError"}

\* Coroutine p holds the model get_model returned to it.
Holds(p) ==
    /\ op[p] \in {"get_model", "get_model_context"}
    /\ pc[p] \in {"returned", "body"}
    /\ result[p] = "ok"

\* C1: in every state, also between two steps of a load or an eviction, the
\* number of resident models is at most settings.model_max_loaded.
ResidentWithinCapacity == Len(models_in_memory) <= model_max_loaded

\* A load into a full cache of two has evicted and stored its model.
FullCacheLoadWitness ==
    \E p \in Procs :
        /\ pc[p] = "setex"
        /\ evicted[p] # <<>>
        /\ model_max_loaded = 2
        /\ Len(models_in_memory) = 2

\* C2: the loader builds at most one object of a name per stay of that name in
\* the cache, however many callers ask for it at once, and every caller whose
\* get_model returned holds the resident object, unless the name has been
\* unloaded since.
ConcurrentAcquireLoadsOnce ==
    /\ \A n \in Names : epoch_loads[n] <= 1
    /\ \A p \in Procs :
          (Holds(p) /\ handle[p] # EvictedInstance) =>
              /\ Resident(arg[p])
              /\ Get(models_in_memory, arg[p]) = handle[p]

\* Two callers of the same name: one is inside its with block, the other's
\* get_model has just returned, and both hold the one object that was built.
SharedHandleWitness ==
    \E p, q \in Procs :
        /\ p # q
        /\ pc[p] = "body"
        /\ pc[q] = "returned"
        /\ result[q] = "ok"
        /\ op[q] \in {"get_model", "get_model_context"}
        /\ arg[p] = arg[q]
        /\ handle[p] = Instance(1)
        /\ handle[q] = Instance(1)
        /\ epoch_loads[arg[p]] = 1

\* C3: while a name stays resident its object is never replaced and the loader
\* is not invoked for it again, and a get_model that returns while the name is
\* resident returns that object.
IdempotentResidency ==
    [][\A n \in Names :
          (Has(models_in_memory, n) /\ Has(models_in_memory', n)) =>
              /\ Get(models_in_memory', n) = Get(models_in_memory, n)
              /\ epoch_loads'[n] = epoch_loads[n]
              /\ \A p \in Procs :
                    (/\ arg[p] = n
                     /\ op[p] \in {"get_model", "get_model_context"}
                     /\ pc[p] # "returned"
                     /\ pc'[p] = "returned"
                     /\ result'[p] = "ok") =>
                        handle'[p] = Get(models_in_memory, n)]_vars

\* A later get_model of a resident name is on its way back with the object that
\* an earlier caller still holds.
ResidentHitWitness ==
    \E p, q \in Procs :
        /\ p # q
        /\ pc[p] = "expire"
        /\ pc[q] = "body"
        /\ arg[p] = arg[q]
        /\ handle[q] = Instance(1)
        /\ epoch_loads[arg[p]] = 1

\* Coroutine p evicts a model in this step, from one of the loops of
\* _load_model.
AutoEvicts(p) ==
    /\ pc'[p] \in {"del_p", "del_c"}
    /\ Len(evicted'[p]) = Len(evicted[p]) + 1

Victim(p) == evicted'[p][Len(evicted'[p])]

\* C4: an eviction by the pressure loop or the capacity loop removes exactly
\* one resident entry, and no resident entry has a smaller last-use time than
\* the one removed.
EvictsLeastRecentlyUsed ==
    [][\A p \in Procs :
          AutoEvicts(p) =>
              /\ Has(models_in_memory, Victim(p))
              /\ models_in_memory' = Del(models_in_memory, Victim(p))
              /\ model_last_used' = Del(model_last_used, Victim(p))
              /\ \A i \in 1..Len(model_last_used) :
                    Get(model_last_used, Victim(p)) <= model_last_used[i][2]]_vars

\* The capacity loop has evicted one of two resident models.
CapacityEvictionWitness ==
    \E p \in Procs :
        /\ pc[p] = "del_c"
        /\ model_max_loaded = 2
        /\ Len(models_in_memory) = 1
        /\ Len(evicted[p]) = 1

\* C5: a get_model that raises the unknown-model error has removed nothing
\* from the cache.
UnknownModelLeavesCacheAlone ==
    \A p \in Procs :
        (Acquired(p) /\ result[p] = "UnknownModel") => evicted[p] = <<>>

\* C6, as claimed: a get_model whose loader raised leaves as many models
\* resident as it found, that is, it has evicted nothing, and its name is not
\* resident.
FailedLoadKeepsCount ==
    \A p \in Procs :
        (Acquired(p) /\ result[p] = "LoadFailure") =>
            /\ evicted[p] = <<>>
            /\ ~Resident(arg[p])

\* C6, amended: the step in which the loader raises changes neither dict, and
\* no entry for the name exists after it; what the loops of the call evicted
\* before stays evicted.
FailedLoadStoresNothing ==
    [][\A p \in Procs :
          (result[p] # "LoadFailure" /\ result'[p] = "LoadFailure") =>
              /\ models_in_memory' = models_in_memory
              /\ model_last_used' = model_last_used
              /\ ~Has(models_in_memory', arg[p])
              /\ ~Has(model_last_used', arg[p])]_vars

\* The loader raised after the call had evicted a model.
FailedLoadAfterEvictionWitness ==
    \E p \in Procs :
        /\ Acquired(p)
        /\ result[p] = "LoadFailure"
        /\ evicted[p] # <<>>

\* C7: no call of get_model or _unload_model ends with the error of a store
\* call.
StoreErrorNeverPropagates ==
    \A p \in Procs : pc[p] = "returned" => result[p] # "StoreError"

\* Coroutine p takes a step of _load_model that starts at the condition of the
\* pressure loop.
ChecksPressure(p) ==
    /\ pc[p] \in {"get", "del_p"}
    /\ pc'[p] # pc[p] \/ evicted'[p] # evicted[p]
    /\ result'[p] # "StoreError"

\* C8: when the pressure loop finds the gauge above the threshold and a model
\* resident, it evicts the least recently used model, and it does so again
\* after each eviction; the capacity loop and the loader run only once the
\* gauge is at or below the threshold or nothing is resident.
PressureEvictsBeforeLoad ==
    [][\A p \in Procs :
          ChecksPressure(p) =>
              IF gpu_usage > gpu_memory_threshold /\ models_in_memory # <<>>
              THEN /\ pc'[p] = "del_p"
                   /\ Len(evicted'[p]) = Len(evicted[p]) + 1
                   /\ models_in_memory' = Del(models_in_memory, Victim(p))
                   /\ epoch_loads' = [epoch_loads EXCEPT ![Victim(p)] = 0]
              ELSE /\ pc'[p] # "del_p"
                   /\ pc'[p] = "del_c" => Len(models_in_memory) >= model_max_loaded]_vars

\* The pressure loop has emptied a cache of two before the load.
PressureEvictionWitness ==
    \E p \in Procs :
        /\ pc[p] = "setex"
        /\ Len(evicted[p]) = 2

\* C9: select_best_model returns the first model of the preference order whose
\* elements include all the required ones.
SelectsFirstQualifying ==
    selected # "unset" =>
        \A i \in 1..Len(model_preference) :
            (/\ elements \subseteq get_supported_elements(model_preference[i])
             /\ \A j \in 1..(i - 1) :
                   ~(elements \subseteq get_supported_elements(model_preference[j])))
            => selected = model_preference[i]

\* H and C alone: ANI2x is returned, though ANI1ccx supports them with fewer
\* elements.
FirstNotSmallestWitness ==
    /\ elements = {1, 6}
    /\ selected = "ANI2x"

\* C10: select_best_model returns None exactly when no model of the registry
\* supports all the required elements, and a model it returns supports them
\* all.
SelectsNoneIffUnsupported ==
    selected # "unset" =>
        /\ selected = "None" <=>
              \A m \in Registry : ~(elements \subseteq get_supported_elements(m))
        /\ selected # "None" =>
              /\ selected \in Registry
              /\ elements \subseteq get_supported_elements(selected)

\* A molecule with boron: no model, and None.
NoneSelectedWitness ==
    /\ elements = {1, 5, 6}
    /\ selected = "None"

\* Coroutine p is suspended inside the critical section of get_model, on a
\* store round trip of its hit path or of its load path.
SuspendedInLock(p) ==
    /\ lock = p
    /\ pc[p] \in {"expire", "get", "del_p", "del_c", "setex"}

\* C11: while a get_model is suspended inside its critical section, no step of
\* another coroutine changes the resident set.
ExclusiveMutation ==
    [][\A p \in Procs :
          (SuspendedInLock(p) /\ pc'[p] = pc[p] /\ evicted'[p] = evicted[p]) =>
              /\ models_in_memory' = models_in_memory
              /\ Keys(model_last_used') = Keys(model_last_used)]_vars

\* Coroutine p leaves the body of its with block in this step.
LeavesBody(p) == pc[p] = "body" /\ pc'[p] # "body"

\* C12: the release at the end of a with block leaves the resident set as it
\* is; it stamps the entry of its name with the current time when the name is
\* resident and changes no timestamp when it is not, and it adds no error of
\* its own to the outcome of the body.
ReleaseOnlyTouches ==
    [][\A p \in Procs :
          LeavesBody(p) =>
              /\ models_in_memory' = models_in_memory
              /\ model_last_used' =
                     IF Has(models_in_memory, arg[p])
                     THEN [i \in 1..Len(model_last_used) |->
                             IF model_last_used[i][1] = arg[p]
                             THEN <<arg[p], now>> ELSE model_last_used[i]]
                     ELSE model_last_used
              /\ result'[p] \in {"released", "BodyError"}]_vars

\* A with block has ended normally after its model was evicted under it.
ReleaseAfterEvictionWitness ==
    \E p \in Procs :
        /\ pc[p] = "returned"
        /\ result[p] = "released"
        /\ handle[p] = EvictedInstance
        /\ ~Resident(arg[p])

\* A call of _unload_model by routes.unload_model has just ended normally.
Unloaded(p) ==
    /\ pc[p] = "returned"
    /\ op[p] = "unload_model"
    /\ result[p] = "ok"

\* C13: when _unload_model has ended, its name is in neither dict, and if the
\* call removed a resident model the record of the name is gone from the store.
UnloadLeavesNameAbsent ==
    \A p \in Procs :
        Unloaded(p) =>
            /\ ~Has(models_in_memory, arg[p])
            /\ ~Has(model_last_used, arg[p])
            /\ evicted[p] # <<>> => redis[arg[p]] = "absent"

\* A call of list_models has just returned its snapshot.
Listed(p) ==
    /\ pc[p] = "returned"
    /\ op[p] = "list_models"
    /\ result[p] = "ok"

\* C14, as claimed: the "loaded" flags list_models returns are the residency of
\* the models when the call returns.
ListedFlagsAreResidency ==
    \A p \in Procs :
        Listed(p) =>
            \A i \in 1..Len(listed[p]) :
                listed[p][i][2] = Resident(listed[p][i][1])

\* Coroutine p takes a step of list_models.
ListsStep(p) ==
    \/ pc[p] = "idle" /\ pc'[p] = "list"
    \/ pc[p] = "list" /\ (pc'[p] # "list" \/ listed'[p] # listed[p])

\* C14, amended: no step of list_models changes a dict or a record, and the
\* "loaded" flag of each entry is the residency of its model at the step that
\* builds the entry, after the store read of that model is back.
ListModelsReadOnly ==
    [][\A p \in Procs :
          ListsStep(p) =>
              /\ models_in_memory' = models_in_memory
              /\ model_last_used' = model_last_used
              /\ redis' = redis
              /\ Len(listed'[p]) > Len(listed[p]) =>
                    /\ Len(listed'[p]) = Len(listed[p]) + 1
                    /\ listed'[p][Len(listed'[p])][1] =
                           available_models[Len(listed'[p])]
                    /\ listed'[p][Len(listed'[p])][2] =
                           Has(models_in_memory, available_models[Len(listed'[p])])]_vars

\* A snapshot that reports two models loaded from a cache that never holds more
\* than one: its flags were read from different states of the cache.
MixedSnapshotWitness ==
    \E p \in Procs :
        /\ Listed(p)
        /\ model_max_loaded = 1
        /\ \E i, j \in 1..Len(listed[p]) :
              i # j /\ listed[p][i][2] /\ listed[p][j][2]

\* C15: whenever a coroutine leaves the body of its with block, after a return
\* or after an exception, the finally clause has stamped its model if resident,
\* the exception of the body is what the caller gets, and the coroutine is
\* out of the context manager: it stamps nothing again for this entry.
ReleaseOnEveryExit ==
    [][\A p \in Procs :
          /\ LeavesBody(p) =>
                /\ pc'[p] = "returned"
                /\ result'[p] \in {"released", "BodyError"}
                /\ Has(models_in_memory, arg[p]) =>
                       Get(model_last_used', arg[p]) = now
          /\ (pc[p] = "returned" /\ result[p] \in {"released", "BodyError"}) =>
                /\ pc'[p] \in {"returned", "idle"}
                /\ model_last_used' = model_last_used]_vars

\* The body raised, and the model it used carries the time of the exit, later
\* than its load.
ReleaseAfterExceptionWitness ==
    \E p \in Procs :
        /\ pc[p] = "returned"
        /\ result[p] = "BodyError"
        /\ Resident(arg[p])
        /\ now > 0
        /\ Get(model_last_used, arg[p]) = now
        /\ \A i \in 1..Len(model_last_used) :
              model_last_used[i][1] # arg[p] => model_last_used[i][2] < now

\* C16: no name is resident twice, and every resident name is one the loader
\* builds.
RegisteredResidentsOnce ==
    /\ \A i, j \in 1..Len(models_in_memory) :
          models_in_memory[i][1] = models_in_memory[j][1] => i = j
    /\ Keys(models_in_memory) \subseteq Registry

\* A get_model of an unknown name has failed next to a resident model.
UnknownBesideResidentWitness ==
    \E p \in Procs :
        /\ Acquired(p)
        /\ result[p] = "UnknownModel"
        /\ models_in_memory # <<>>

\* C17: a get_model that found its name resident never ends with the KeyError
\* of line 158.
ResidentHitNeverRaises ==
    \A p \in Procs : Acquired(p) => result[p] # "KeyError"

\* C18: a get_model that went through _load_model and raised, at whatever
\* step, leaves its name out of both dicts.
FailedLoadOccupiesNoSlot ==
    \A p \in Procs :
        (/\ Acquired(p)
         /\ \/ result[p] \in {"UnknownModel", "LoadFailure"}
            \/ result[p] = "StoreError" /\ handle[p] # NoHandle) =>
            /\ ~Has(models_in_memory, arg[p])
            /\ ~Has(model_last_used, arg[p])

AcquireLeavesFreshRecord ==
    \A p \in Procs :
        (Acquired(p) /\ result[p] = "ok") => redis[arg[p]] = "fresh"

\* C21: what get_model does once its store read is back is decided by the
\* gauge, the resident models and the name alone, whatever record the store
\* holds: the pressure loop evicts when the gauge is high and a model resident,
\* else the capacity loop evicts when the cache is full, else an unknown name
\* is rejected, else the loader is invoked and the model stored unless the
\* loader raises.  On the hit path the model is returned if it is still
\* resident, whether its record was there to be renewed or not.
RecordsAreAdvisory ==
    [][\A p \in Procs :
        /\ (pc[p] = "expire" /\ pc'[p] # "expire") =>
              /\ models_in_memory' = models_in_memory
              /\ result'[p] = IF Has(models_in_memory, arg[p])
                              THEN "ok" ELSE "KeyError"
        /\ (pc[p] = "get" /\ pc'[p] # "get") =>
              IF gpu_usage > gpu_memory_threshold /\ models_in_memory # <<>>
              THEN pc'[p] = "del_p"
              ELSE IF Len(models_in_memory) >= model_max_loaded
              THEN IF models_in_memory # <<>>
                   THEN pc'[p] = "del_c"
                   ELSE pc'[p] = "spin"
              ELSE IF arg[p] \notin Registry
              THEN /\ pc'[p] = "returned"
                   /\ result'[p] = "UnknownModel"
                   /\ models_in_memory' = models_in_memory
              ELSE \/ /\ pc'[p] = "returned"
                      /\ result'[p] = "LoadFailure"
                      /\ models_in_memory' = models_in_memory
                   \/ /\ pc'[p] = "setex"
                      /\ Keys(models_in_memory') =
                             Keys(models_in_memory) \cup {arg[p]}]_vars

\* A model has been loaded, after an eviction, although the store held a
\* record for it all along.
LoadedWithRecordWitness ==
    \E p \in Procs :
        /\ pc[p] = "setex"
        /\ redis[arg[p]] = "stale"
        /\ evicted[p] # <<>>

\* C22: with the gauge at 0 when the pressure loop is reached, a get_model of
\* a name that is not resident evicts nothing below the limit and evicts the
\* least recently used model at the limit; the capacity loop never evicts a
\* second time, and the hit path evicts nothing.
CapacityOnlyEviction ==
    [][\A p \in Procs :
        /\ (pc[p] = "get" /\ pc'[p] # "get" /\ gpu_usage = 0
               /\ result'[p] # "StoreError") =>
              IF Len(models_in_memory) < model_max_loaded
              THEN /\ evicted'[p] = <<>>
                   /\ pc'[p] \in {"setex", "returned"}
              ELSE models_in_memory # <<>> =>
                      /\ pc'[p] = "del_c"
                      /\ Len(evicted'[p]) = 1
                      /\ Has(models_in_memory, evicted'[p][1])
                      /\ models_in_memory' = Del(models_in_memory, evicted'[p][1])
                      /\ \A i \in 1..Len(model_last_used) :
                            Get(model_last_used, evicted'[p][1])
                                <= model_last_used[i][2]
        /\ (pc[p] = "del_c" /\ pc'[p] # "del_c") =>
              /\ evicted'[p] = evicted[p]
              /\ pc'[p] \in {"setex", "returned"}
        /\ pc[p] = "expire" => (evicted[p] = <<>> /\ evicted'[p] = <<>>)]_vars

\* With the gauge at 0, a full cache of two has lost exactly one model to a
\* load that has now stored its own.
OneEvictionAtZeroWitness ==
    \E p \in Procs :
        /\ pc[p] = "setex"
        /\ gpu_usage = 0
        /\ model_max_loaded = 2
        /\ Len(evicted[p]) = 1
        /\ Len(models_in_memory) = 2

\* C23: an eviction has removed its model from both dicts by the time it asks
\* the store to delete the record, and a delete that fails puts nothing back.
EvictionRemovesBeforeDelete ==
    [][\A p \in Procs :
        /\ (/\ pc'[p] \in {"del_p", "del_c", "udel"}
            /\ Len(evicted'[p]) = Len(evicted[p]) + 1) =>
              /\ Has(models_in_memory, evicted'[p][Len(evicted'[p])])
              /\ ~Has(models_in_memory', evicted'[p][Len(evicted'[p])])
              /\ ~Has(model_last_used', evicted'[p][Len(evicted'[p])])
        /\ (/\ pc[p] \in {"del_p", "del_c", "udel"}
            /\ pc'[p] = "returned"
            /\ result'[p] = "StoreError") =>
              /\ models_in_memory' = models_in_memory
              /\ model_last_used' = model_last_used]_vars

\* An eviction inside a load has failed in the store's delete, and the model
\* it evicted is in neither dict.
FailedDeleteWitness ==
    \E p \in Procs :
        /\ Acquired(p)
        /\ result[p] = "StoreError"
        /\ handle[p] = NoHandle
        /\ evicted[p] # <<>>
        /\ ~Has(models_in_memory, evicted[p][Len(evicted[p])])
        /\ ~Has(model_last_used, evicted[p][Len(evicted[p])])

\* C24: no get_model is ever stuck in a loop of _load_model.
AcquireTerminates ==
    \A p \in Procs : pc[p] # "spin"

\* The last-use times of the resident models are all different.
DistinctTimes ==
    \A i, j \in 1..Len(model_last_used) :
        model_last_used[i][2] = model_last_used[j][2] => i = j

\* C25: a hit, a load and the end of a with block stamp their model with the
\* current time, and when two or more models with different last-use times are
\* resident, the pressure loop and the capacity loop never evict the one used
\* last.
RecencyDecidesVictim ==
    [][\A p \in Procs :
        /\ (pc[p] = "lock" /\ pc'[p] = "expire") =>
              Get(model_last_used', arg[p]) = now
        /\ (pc[p] # "setex" /\ pc'[p] = "setex") =>
              Get(model_last_used', arg[p]) = now
        /\ (LeavesBody(p) /\ Has(models_in_memory, arg[p])) =>
              Get(model_last_used', arg[p]) = now
        /\ (AutoEvicts(p) /\ Len(model_last_used) >= 2 /\ DistinctTimes) =>
              \E i \in 1..Len(model_last_used) :
                  model_last_used[i][2] > Get(model_last_used, Victim(p))]_vars

\* The capacity loop has evicted one of two models, and the one it kept was
\* used at the current time, after the clock had moved.
KeptMostRecentWitness ==
    \E p \in Procs :
        /\ pc[p] = "del_c"
        /\ model_max_loaded = 2
        /\ Len(evicted[p]) = 1
        /\ Len(model_last_used) = 1
        /\ now > 0
        /\ model_last_used[1][2] = now

\* C26: close unloads nothing before the client of the store is closed, and
\* when close has returned, both dicts are empty.
ClosedCacheIsEmpty ==
    /\ [](\A p \in Procs :
            (pc[p] = "closed" /\ result[p] = "ok") =>
                (models_in_memory = <<>> /\ model_last_used = <<>>))
    /\ [][\A p \in Procs :
            (op'[p] = "close" /\ models_in_memory' # models_in_memory) =>
                pc[p] \in {"rclose", "cdel"}]_vars

\* close has returned after unloading two resident models.
ClosedTwoModelsWitness ==
    \E p \in Procs :
        /\ pc[p] = "closed"
        /\ result[p] = "ok"
        /\ Len(evicted[p]) = 2

\* C27: a job that names a model outside the registry is never retried, and
\* when it has failed, it has failed with the unknown-model error.
UnknownModelJobNotRetried ==
    (request.kind = "job" /\ request.model_name \notin Registry \cup {"None"}) =>
        /\ job.retries = 0
        /\ job.state # "RETRY"
        /\ job.state = "FAILURE" => job.error = "Unknown model"

\* C28: when no model is named and select_best_model returns None, a route
\* answers 400 and never 500, a job is not retried, and get_model_context is
\* never entered.
NoModelIsClientError ==
    (/\ request.kind # "none"
     /\ request.model_name = "None"
     /\ request.rows_match
     /\ select_best_model(elements) = "None") =>
        /\ response.status \in {0, 400}
        /\ ~response.acquired
        /\ job.retries = 0
        /\ job.state # "RETRY"

\* C29: a route whose request has another number of coordinate rows than of
\* elements answers 400 with the detail of the length check, and
\* get_model_context is never entered.
MismatchAnswers400 ==
    (request.kind \in {"optimize", "energy"} /\ ~request.rows_match
        /\ response # NoResponse) =>
        /\ response.status = 400
        /\ response.detail = "Number of coordinates must match number of elements"
        /\ ~response.acquired

\* The lock is held only by a coroutine inside get_model, so a call that has
\* ended, by returning or by raising, has released it; and a coroutine that
\* waits for the lock gets it, unless the event loop is stuck in the capacity
\* loop of a call that neither returns nor raises.
LockReleasedOnEveryExit ==
    /\ [](\A p \in Procs :
            lock = p =>
                pc[p] \in {"expire", "get", "del_p", "del_c", "setex", "spin"})
    /\ \A p \in Procs : (pc[p] = "lock") ~> (pc[p] # "lock" \/ hung)

\* C30: a call of get_model that has ended has released the lock, and every
\* coroutine that waits for the lock gets it.
WaitingAcquireEnters ==
    /\ [](\A p \in Procs : Acquired(p) => lock # p)
    /\ \A p \in Procs : (pc[p] = "lock") ~> (pc[p] # "lock")

\* C32: select_best_model returns ANI2x for every set of elements within
\* {1, 6, 7, 8, 9, 16, 17}, the empty set included, and None for every other
\* set; it never returns ANI1x or ANI1ccx.
SelectsOnlyANI2x ==
    selected # "unset" =>
        /\ selected = IF elements \subseteq {1, 6, 7, 8, 9, 16, 17}
                      THEN "ANI2x" ELSE "None"
        /\ selected \notin {"ANI1x", "ANI1ccx"}

\* ANI2x has been selected for a molecule that ANI1x and ANI1ccx support too.
ANI2xOverANI1xWitness ==
    /\ selected = "ANI2x"
    /\ elements # {}
    /\ elements \subseteq get_supported_elements("ANI1x")
    /\ elements \subseteq get_supported_elements("ANI1ccx")

\* C33: the two dicts have the same keys in every state, also while a load or
\* an unload is suspended, and the model the pressure loop or the capacity
\* loop picks from the last-use times is resident.
DictsShareKeys ==
    /\ [](Keys(model_last_used) = Keys(models_in_memory))
    /\ [](Len(model_last_used) = Len(models_in_memory))
    /\ [][\A p \in Procs :
            AutoEvicts(p) =>
                /\ Has(models_in_memory, Victim(p))
                /\ Has(model_last_used, Victim(p))]_vars

\* A load has stored its model after an eviction while another coroutine is
\* suspended in the delete of an unload of its own.
LoadBesideUnloadWitness ==
    \E p, q \in Procs :
        /\ pc[p] = "setex"
        /\ evicted[p] # <<>>
        /\ pc[q] = "udel"
        /\ Has(models_in_memory, arg[p])
        /\ Has(model_last_used, arg[p])

\* C34: of the resident models that share the smallest last-use time, the
\* pressure loop and the capacity loop evict the one loaded first: every
\* other model with that time comes later in both dicts.
TieBreakIsInsertionOrder ==
    [][\A p \in Procs :
          AutoEvicts(p) =>
              LET d == model_last_used
                  i == IndexOf(d, Victim(p))
                  k == IndexOf(models_in_memory, Victim(p))
              IN  /\ Victim(p) = OldestModel
                  /\ \A j \in 1..Len(d) :
                        /\ d[j][2] >= d[i][2]
                        /\ (d[j][2] = d[i][2] /\ j # i) =>
                              /\ j > i
                              /\ IndexOf(models_in_memory, d[j][1]) > k]_vars

\* The capacity loop has evicted one of two models while the clock still
\* stood at its first value, so that both had the same last-use time.
TiedEvictionWitness ==
    \E p \in Procs :
        /\ pc[p] = "del_c"
        /\ model_max_loaded = 2
        /\ now = 0
        /\ Len(evicted[p]) = 1
        /\ Len(model_last_used) = 1

\* When initialize has ended after its preloads, it has asked get_model for
\* every configured model, in the configured order and whatever the outcome
\* of the earlier ones, and no more models are resident than the limit
\* allows; only the connection to the store ends it early; and it ends
\* unless a preload is stuck in the capacity loop.
PreloadFailuresSkipped ==
    /\ [](init_state = "done" =>
            /\ Len(preloaded) = Len(model_preload)
            /\ \A i \in 1..Len(preloaded) : preloaded[i][1] = model_preload[i]
            /\ Len(models_in_memory) <= model_max_loaded)
    /\ [](init_state = "failed" => preloaded = <<>>)
    /\ <>(init_state \in {"done", "failed"} \/ hung)

\* The number of configured models initialize has asked get_model for.
Attempted ==
    Len(preloaded) + IF pc[Initializer] = "idle" THEN 0 ELSE 1

\* C31: initialize asks get_model for every configured model in the
\* configured order, a failed preload stops neither initialize nor the
\* preloads after it, and when initialize has ended no more models are
\* resident than the limit allows.
PreloadsEveryModel ==
    /\ [](init_state = "done" =>
            /\ \A i \in 1..Len(preloaded) : preloaded[i][1] = model_preload[i]
            /\ Len(models_in_memory) <= model_max_loaded)
    /\ <>(init_state = "failed" \/ Attempted = Len(model_preload))

\* A preload has failed and the one after it has loaded its model.
PreloadAfterFailureWitness ==
    /\ init_state = "done"
    /\ Len(preloaded) = 2
    /\ preloaded[1][2] # "ok"
    /\ preloaded[2][2] = "ok"
    /\ Has(models_in_memory, preloaded[2][1])

====
